---- MODULE Spec2Model ----
(***************************************************************************)
(* A model of kindr::rotations::eigen_impl::EulerAnglesZyx<PrimType_,      *)
(* Usage_> (EulerAnglesZyx.hpp).                                           *)
(*                                                                         *)
(* Angles are exact multiples of pi/4: the integer k stands for the angle  *)
(* k*pi/4, so M_PI is 4 and 2*M_PI is 8.  All arithmetic of the class      *)
(* (negation, +-M_PI, the modulo by 2*M_PI, comparison with M_PI/2) is     *)
(* closed on this grid, so the model computes what the code computes with  *)
(* exact arithmetic; rounding of the floating point type is not modelled.  *)
(*                                                                         *)
(* One object of the class is modelled: its template argument Usage_, its  *)
(* member zyx_, and the last call made on it with its argument and the     *)
(* object it returned.                                                     *)
(***************************************************************************)
EXTENDS Integers, Sequences, FiniteSets

(* usage     the template argument Usage_ of the object, fixed for its life *)
(* zyx_      the member zyx_: the stored payload [yaw; pitch; roll]         *)
(* op        the constructor or member function called last                 *)
(* arg       the argument of that call: <<>>, <<v>> for a setter, a triple  *)
(*           for a constructor, the source's stored payload for a conversion *)
(* ret       the stored payload of the object the call returned (the object *)
(*           itself for a constructor, a setter or a call returning *this)  *)
(* supplied  per angle, the set holding the value the caller supplied last  *)
(*           for it through a constructor or a setter, empty when there is  *)
(*           none or the angle was written since by another call            *)
VARIABLES usage, zyx_, op, arg, ret, supplied

vars == <<usage, zyx_, op, arg, ret, supplied>>

(* M_PI of <cmath>, in units of pi/4. *)
M_PI == 4

(* Largest angle magnitude drawn as an input, in units of pi/4. *)
MaxAngle == 5

Angles == (0 - MaxAngle) .. MaxAngle

Triples == {<<a, b, c>> : a \in Angles, b \in Angles, c \in Angles}

(* enum RotationUsage *)
Usages == {"ACTIVE", "PASSIVE"}

(* get_other_usage<EulerAnglesZyx<PrimType_, Usage_>>::OtherUsage *)
OtherUsage(u) == IF u = "ACTIVE" THEN "PASSIVE" ELSE "ACTIVE"

(* Eigen's unary minus on a 3-vector. *)
Neg(v) == <<0 - v[1], 0 - v[2], 0 - v[3]>>

(* Base::Zero() *)
Zero == <<0, 0, 0>>

(* ---------------------------------------------------------------------- *)
(* Constructors                                                           *)
(* ---------------------------------------------------------------------- *)

(* EulerAnglesZyx(): zyx_(Base::Zero()) *)
CtorDefault == Zero

(* EulerAnglesZyx(Scalar yaw, Scalar pitch, Scalar roll) *)
CtorScalars(u, yaw, pitch, roll) ==
    IF u = "ACTIVE" THEN <<yaw, pitch, roll>>
    ELSE <<0 - yaw, 0 - pitch, 0 - roll>>

(* explicit EulerAnglesZyx(const Base& other) *)
CtorBase(u, other) ==
    IF u = "ACTIVE" THEN other ELSE Neg(other)

(* ---------------------------------------------------------------------- *)
(* Readers                                                                *)
(* ---------------------------------------------------------------------- *)

(* A plausible slip: the Passive branch returns zyx_ like the Active one. *)
toImplementation_NoFlip(u, z) == z

(* Implementation toImplementation() const *)
toImplementation(u, z) ==
    IF u = "ACTIVE" THEN z ELSE Neg(z)

(* const Base& toStoredImplementation() const *)
toStoredImplementation(z) == z

(* Scalar yaw() const *)
yaw(u, z) == IF u = "ACTIVE" THEN z[1] ELSE 0 - z[1]

(* Scalar pitch() const *)
pitch(u, z) == IF u = "ACTIVE" THEN z[2] ELSE 0 - z[2]

(* Scalar roll() const *)
roll(u, z) == IF u = "ACTIVE" THEN z[3] ELSE 0 - z[3]

(* The triple the three named accessors return. *)
Nominal(u, z) == <<yaw(u, z), pitch(u, z), roll(u, z)>>

(* ---------------------------------------------------------------------- *)
(* Writers                                                                *)
(* ---------------------------------------------------------------------- *)

(* void setYaw(Scalar yaw) *)
setYaw(u, z, v) ==
    [z EXCEPT ![1] = IF u = "ACTIVE" THEN v ELSE 0 - v]

(* A plausible slip: the Passive branch stores the pitch without negating. *)
setPitch_NoFlip(u, z, v) == [z EXCEPT ![2] = v]

(* void setPitch(Scalar pitch) *)
setPitch(u, z, v) ==
    [z EXCEPT ![2] = IF u = "ACTIVE" THEN v ELSE 0 - v]

(* void setRoll(Scalar roll) *)
setRoll(u, z, v) ==
    [z EXCEPT ![3] = IF u = "ACTIVE" THEN v ELSE 0 - v]

(* Scalar z() const *)
z(u, v) == IF u = "ACTIVE" THEN v[1] ELSE 0 - v[1]

(* Scalar y() const *)
y(u, v) == IF u = "ACTIVE" THEN v[2] ELSE 0 - v[2]

(* Scalar x() const *)
x(u, v) == IF u = "ACTIVE" THEN v[3] ELSE 0 - v[3]

(* A plausible slip: z taken for the last entry of zyx_, as in the order    *)
(* [roll; pitch; yaw] the comment of the constructor from Base names.      *)
setZ_LastEntry(u, v, a) ==
    [v EXCEPT ![3] = IF u = "ACTIVE" THEN a ELSE 0 - a]

(* void setZ(Scalar z) *)
setZ(u, v, a) ==
    [v EXCEPT ![1] = IF u = "ACTIVE" THEN a ELSE 0 - a]

(* void setY(Scalar y) *)
setY(u, v, a) ==
    [v EXCEPT ![2] = IF u = "ACTIVE" THEN a ELSE 0 - a]

(* void setX(Scalar x) *)
setX(u, v, a) ==
    [v EXCEPT ![3] = IF u = "ACTIVE" THEN a ELSE 0 - a]

(* ---------------------------------------------------------------------- *)
(* Canonicalization                                                       *)
(* ---------------------------------------------------------------------- *)

(* kindr::common::floatingPointModulo(x, y) for y > 0: the value of x      *)
(* modulo y in [0, y).  Its definition is in kindr/common/common.hpp; it   *)
(* is modelled as the modulo the specification names.                      *)
floatingPointModulo(a, b) == a % b

(* floatingPointModulo(angle + M_PI, 2*M_PI) - M_PI *)
WrapAngle(a) == floatingPointModulo(a + M_PI, 2 * M_PI) - M_PI

(* A plausible slip: the wrap reads zyx_ instead of yaw(), pitch(), roll(). *)
Wrapped_RawRead(u, v) ==
    CtorScalars(u, WrapAngle(v[1]), WrapAngle(v[2]), WrapAngle(v[3]))

(* getUnique(), the local zyx as constructed: all angles wrapped. *)
Wrapped(u, v) ==
    CtorScalars(u, WrapAngle(yaw(u, v)), WrapAngle(pitch(u, v)), WrapAngle(roll(u, v)))

(* A plausible slip: the yaw is lowered by M_PI whatever its sign. *)
ShiftYaw_AlwaysDown(u, v) == setYaw(u, v, yaw(u, v) - M_PI)

(* A plausible slip: the yaw is left as wrapped in the remapping branches. *)
ShiftYaw_Missing(u, v) == v

(* getUnique(): if(zyx.yaw() >= 0) setYaw(yaw - M_PI) else setYaw(yaw + M_PI) *)
ShiftYaw(u, v) ==
    IF yaw(u, v) >= 0 THEN setYaw(u, v, yaw(u, v) - M_PI)
    ELSE setYaw(u, v, yaw(u, v) + M_PI)

(* A plausible slip: the roll is left as wrapped in the remapping branches. *)
ShiftRoll_Missing(u, v) == v

(* getUnique(): if(zyx.roll() >= 0) setRoll(roll - M_PI) else setRoll(roll + M_PI) *)
ShiftRoll(u, v) ==
    IF roll(u, v) >= 0 THEN setRoll(u, v, roll(u, v) - M_PI)
    ELSE setRoll(u, v, roll(u, v) + M_PI)

(* EulerAnglesZyx getUnique() const: the stored payload of the returned    *)
(* object, for a receiver of usage u with stored payload v.                *)
getUnique(u, v) ==
    LET zyx == Wrapped(u, v) IN
    IF pitch(u, zyx) >= M_PI \div 2
    THEN LET z1 == ShiftYaw(u, zyx)
             z2 == setPitch(u, z1, 0 - (pitch(u, z1) - M_PI))
         IN  ShiftRoll(u, z2)
    ELSE IF pitch(u, zyx) < 0 - (M_PI \div 2)
    THEN LET z1 == ShiftYaw(u, zyx)
             z2 == setPitch(u, z1, 0 - (pitch(u, z1) + M_PI))
         IN  ShiftRoll(u, z2)
    ELSE zyx

(* ---------------------------------------------------------------------- *)
(* Conversion from an EulerAnglesZyx of the same usage                    *)
(* ---------------------------------------------------------------------- *)

(* ConversionTraits<EulerAnglesZyx<Dest, Usage_>, EulerAnglesZyx<Source,   *)
(* Usage_>>::convert(zyx): the stored payload of the returned object, for  *)
(* a source with stored payload v.  cast<DestPrimType_>() is the identity  *)
(* on the grid values; the constructor it feeds is EulerAnglesZyx(const    *)
(* Base&).                                                                 *)
convert(u, v) == CtorBase(u, toStoredImplementation(v))

(* ---------------------------------------------------------------------- *)
(* The object: construction                                               *)
(* ---------------------------------------------------------------------- *)

(* No angle has been supplied by the caller. *)
NoneSupplied == <<{}, {}, {}>>

(* The angles a caller supplied as the triple t. *)
AllSupplied(t) == <<{t[1]}, {t[2]}, {t[3]}>>

(* EulerAnglesZyx() *)
InitDefault ==
    /\ zyx_ = CtorDefault
    /\ op = "EulerAnglesZyx()"
    /\ arg = <<>>
    /\ supplied = NoneSupplied

(* EulerAnglesZyx(yaw, pitch, roll) *)
InitScalars ==
    \E t \in Triples :
        /\ zyx_ = CtorScalars(usage, t[1], t[2], t[3])
        /\ op = "EulerAnglesZyx(Scalar,Scalar,Scalar)"
        /\ arg = t
        /\ supplied = AllSupplied(t)

(* EulerAnglesZyx(const Base& other) *)
InitBase ==
    \E t \in Triples :
        /\ zyx_ = CtorBase(usage, t)
        /\ op = "EulerAnglesZyx(Base)"
        /\ arg = t
        /\ supplied = AllSupplied(t)

(* EulerAnglesZyx(const RotationBase<OtherDerived_, Usage_>& other), other *)
(* an EulerAnglesZyx of the same usage whose stored payload is t:          *)
(* zyx_(ConversionTraits::convert(other.derived()).toStoredImplementation()) *)
InitRotation ==
    \E t \in Triples :
        /\ zyx_ = toStoredImplementation(convert(usage, t))
        /\ op = "EulerAnglesZyx(RotationBase)"
        /\ arg = t
        /\ supplied = NoneSupplied

Init ==
    /\ usage \in Usages
    /\ \/ InitDefault
       \/ InitScalars
       \/ InitBase
       \/ InitRotation
    /\ ret = zyx_

(* ---------------------------------------------------------------------- *)
(* The object: calls                                                      *)
(* ---------------------------------------------------------------------- *)

SetYaw ==
    \E v \in Angles :
        /\ zyx_' = setYaw(usage, zyx_, v)
        /\ op' = "setYaw"
        /\ arg' = <<v>>
        /\ supplied' = [supplied EXCEPT ![1] = {v}]
        /\ ret' = zyx_'
        /\ UNCHANGED usage

SetPitch ==
    \E v \in Angles :
        /\ zyx_' = setPitch(usage, zyx_, v)
        /\ op' = "setPitch"
        /\ arg' = <<v>>
        /\ supplied' = [supplied EXCEPT ![2] = {v}]
        /\ ret' = zyx_'
        /\ UNCHANGED usage

SetRoll ==
    \E v \in Angles :
        /\ zyx_' = setRoll(usage, zyx_, v)
        /\ op' = "setRoll"
        /\ arg' = <<v>>
        /\ supplied' = [supplied EXCEPT ![3] = {v}]
        /\ ret' = zyx_'
        /\ UNCHANGED usage

SetZ ==
    \E v \in Angles :
        /\ zyx_' = setZ(usage, zyx_, v)
        /\ op' = "setZ"
        /\ arg' = <<v>>
        /\ supplied' = [supplied EXCEPT ![1] = {v}]
        /\ ret' = zyx_'
        /\ UNCHANGED usage

SetY ==
    \E v \in Angles :
        /\ zyx_' = setY(usage, zyx_, v)
        /\ op' = "setY"
        /\ arg' = <<v>>
        /\ supplied' = [supplied EXCEPT ![2] = {v}]
        /\ ret' = zyx_'
        /\ UNCHANGED usage

SetX ==
    \E v \in Angles :
        /\ zyx_' = setX(usage, zyx_, v)
        /\ op' = "setX"
        /\ arg' = <<v>>
        /\ supplied' = [supplied EXCEPT ![3] = {v}]
        /\ ret' = zyx_'
        /\ UNCHANGED usage

(* EulerAnglesZyx& setIdentity() { this->Implementation::setZero();        *)
(* return *this; }                                                         *)
(* Implementation is Eigen::Matrix<PrimType_, 3, 1>.  The class has the    *)
(* one base EulerAnglesZyxBase and keeps its payload in the member zyx_,   *)
(* so the statement names a base subobject the object does not have, and   *)
(* a compiler rejects it once setIdentity() is instantiated.  The body     *)
(* holds no assignment to zyx_: the member is left as it was.              *)
SetIdentity ==
    /\ zyx_' = zyx_
    /\ op' = "setIdentity"
    /\ arg' = <<>>
    /\ ret' = zyx_'
    /\ UNCHANGED <<usage, supplied>>

(* EulerAnglesZyx getUnique() const *)
GetUnique ==
    /\ ret' = getUnique(usage, zyx_)
    /\ op' = "getUnique"
    /\ arg' = <<>>
    /\ UNCHANGED <<usage, zyx_, supplied>>

(* A plausible slip: the result is assigned through the constructor from  *)
(* the raw payload, which applies the usage sign a second time.            *)
SetUnique_ViaBase ==
    /\ zyx_' = CtorBase(usage, toStoredImplementation(getUnique(usage, zyx_)))
    /\ op' = "setUnique"
    /\ arg' = <<>>
    /\ supplied' = NoneSupplied
    /\ ret' = zyx_'
    /\ UNCHANGED usage

(* EulerAnglesZyx& setUnique() { *this = getUnique(); return *this; }: the *)
(* implicit copy assignment copies the zyx_ of the returned object.        *)
SetUnique ==
    /\ zyx_' = getUnique(usage, zyx_)
    /\ op' = "setUnique"
    /\ arg' = <<>>
    /\ supplied' = NoneSupplied
    /\ ret' = zyx_'
    /\ UNCHANGED usage

(* EulerAnglesZyx& operator =(const RotationBase<OtherDerived_, Usage_>&   *)
(* other) { *this = ConversionTraits::convert(other.derived()); }, other   *)
(* an EulerAnglesZyx<SourcePrimType_, Usage_> whose stored payload o is    *)
(* that of this object or of the object the last call returned.  The       *)
(* inner assignment is the implicit copy assignment: it copies zyx_.       *)
Assign ==
    \E o \in {zyx_, ret} :
        /\ zyx_' = convert(usage, o)
        /\ op' = "operator="
        /\ arg' = o
        /\ supplied' = NoneSupplied
        /\ ret' = zyx_'
        /\ UNCHANGED usage

(* EulerAnglesZyx& operator ()(const RotationBase<OtherDerived_, Usage_>&  *)
(* other) { *this = ConversionTraits::convert(other.derived()); }, other   *)
(* an EulerAnglesZyx of the same usage whose stored payload o is that of   *)
(* this object or of the object the last call returned.                    *)
Call ==
    \E o \in {zyx_, ret} :
        /\ zyx_' = convert(usage, o)
        /\ op' = "operator()"
        /\ arg' = o
        /\ supplied' = NoneSupplied
        /\ ret' = zyx_'
        /\ UNCHANGED usage

Next ==
    \/ SetYaw
    \/ SetPitch
    \/ SetRoll
    \/ SetZ
    \/ SetY
    \/ SetX
    \/ SetIdentity
    \/ GetUnique
    \/ SetUnique
    \/ Assign
    \/ Call

Spec == Init /\ [][Next]_vars

(* ---------------------------------------------------------------------- *)
(* The rotation an angle triple encodes: R = Rz(yaw) * Ry(pitch) * Rx(roll) *)
(* ---------------------------------------------------------------------- *)

(* Numbers a + b*sqrt(2) as pairs <<a, b>>: the sines and cosines of the   *)
(* multiples of pi/4 are halves of such numbers, and 1 and sqrt(2) are     *)
(* independent over the integers, so equal numbers are equal pairs.        *)
Add(p, q) == <<p[1] + q[1], p[2] + q[2]>>

Sub(p, q) == <<p[1] - q[1], p[2] - q[2]>>

Mul(p, q) == <<p[1] * q[1] + 2 * p[2] * q[2], p[1] * q[2] + p[2] * q[1]>>

Two == <<2, 0>>

(* 2 * cos(k * pi / 4) *)
Cos2(k) ==
    CASE k % 8 = 0 -> <<2, 0>>
      [] k % 8 = 1 -> <<0, 1>>
      [] k % 8 = 2 -> <<0, 0>>
      [] k % 8 = 3 -> <<0, 0 - 1>>
      [] k % 8 = 4 -> <<0 - 2, 0>>
      [] k % 8 = 5 -> <<0, 0 - 1>>
      [] k % 8 = 6 -> <<0, 0>>
      [] k % 8 = 7 -> <<0, 1>>

(* 2 * sin(k * pi / 4) = 2 * cos((k - 2) * pi / 4) *)
Sin2(k) == Cos2(k - 2)

(* 8 * Rz(yaw) * Ry(pitch) * Rx(roll), row by row, for the triple t. *)
RotationMatrix(t) ==
    LET cy == Cos2(t[1])
        sy == Sin2(t[1])
        cp == Cos2(t[2])
        sp == Sin2(t[2])
        cr == Cos2(t[3])
        sr == Sin2(t[3])
    IN  << Mul(Two, Mul(cy, cp)),
           Sub(Mul(cy, Mul(sp, sr)), Mul(Two, Mul(sy, cr))),
           Add(Mul(cy, Mul(sp, cr)), Mul(Two, Mul(sy, sr))),
           Mul(Two, Mul(sy, cp)),
           Add(Mul(sy, Mul(sp, sr)), Mul(Two, Mul(cy, cr))),
           Sub(Mul(sy, Mul(sp, cr)), Mul(Two, Mul(cy, sr))),
           Sub(<<0, 0>>, Mul(Two, Mul(Two, sp))),
           Mul(Two, Mul(cp, sr)),
           Mul(Two, Mul(cp, cr)) >>

(* The matrices of all triples, by the angles modulo 2*pi. *)
RotationTable ==
    [t \in {<<a, b, c>> : a \in 0 .. 7, b \in 0 .. 7, c \in 0 .. 7} |-> RotationMatrix(t)]

(* The matrix of the triple t. *)
Rot(t) == RotationTable[<<t[1] % 8, t[2] % 8, t[3] % 8>>]

(* The triples v and w encode the same rotation. *)
SameRotation(v, w) == Rot(v) = Rot(w)

(* The triples of the input domain by the rotation they encode: for the    *)
(* angles k modulo 2*pi, every input triple w with SameRotation(k, w).     *)
EquivalentTable ==
    [k \in DOMAIN RotationTable |->
        {w : w \in {t \in Triples : SameRotation(t, k)}}]

(* Every input triple that encodes the rotation the triple v encodes. *)
Equivalent(v) == EquivalentTable[<<v[1] % 8, v[2] % 8, v[3] % 8>>]

(* cos(pitch) = 0: yaw and roll are coupled. *)
GimbalLock(t) == Cos2(t[2]) = <<0, 0>>

(* yaw(), pitch(), roll() of getUnique() of an object constructed from the *)
(* nominal triple t.                                                       *)
UniqueOfNominal(u, t) ==
    Nominal(u, getUnique(u, CtorScalars(u, t[1], t[2], t[3])))

(* yaw in [-pi, pi), pitch in [-pi/2, pi/2), roll in [-pi, pi) *)
InRange(t) ==
    /\ 0 - M_PI <= t[1] /\ t[1] < M_PI
    /\ 0 - (M_PI \div 2) <= t[2] /\ t[2] < M_PI \div 2
    /\ 0 - M_PI <= t[3] /\ t[3] < M_PI

(* ---------------------------------------------------------------------- *)
(* Claims                                                                 *)
(* ---------------------------------------------------------------------- *)

(* C1: the value getUnique() returns has yaw() in [-pi, pi), pitch() in    *)
(* [-pi/2, pi/2) and roll() in [-pi, pi), for every receiver and both      *)
(* usages, a pitch of exactly +-pi/2 included.                             *)
C1_UniqueInRange ==
    op = "getUnique" => InRange(Nominal(usage, ret))

(* C2: getUnique() is idempotent: getUnique() of the value getUnique()     *)
(* returned has the same yaw, pitch and roll as that value.                *)
C2_UniqueIdempotent ==
    op = "getUnique" =>
        Nominal(usage, getUnique(usage, ret)) = Nominal(usage, ret)

(* The object of the other usage constructed from the same three scalars. *)
Twin == CtorScalars(OtherUsage(usage), arg[1], arg[2], arg[3])

(* The stored payload of the Active (Passive) one of the object and its    *)
(* twin.                                                                   *)
ActiveOne == IF usage = "ACTIVE" THEN zyx_ ELSE Twin

PassiveOne == IF usage = "PASSIVE" THEN zyx_ ELSE Twin

(* C3, as claimed: constructed from the same (yaw, pitch, roll), the       *)
(* Passive object's toImplementation() is the component-wise negation of   *)
(* the Active object's toImplementation().                                 *)
C3_SignLawAsClaimed ==
    op = "EulerAnglesZyx(Scalar,Scalar,Scalar)" =>
        toImplementation("PASSIVE", PassiveOne)
            = Neg(toImplementation("ACTIVE", ActiveOne))

(* C3, amended: constructed from the same (yaw, pitch, roll), the Passive  *)
(* and the Active object return the same toImplementation(), the triple    *)
(* (yaw, pitch, roll); it is their stored payloads that are component-wise *)
(* negations of each other.                                                *)
C3_SignLaw ==
    op = "EulerAnglesZyx(Scalar,Scalar,Scalar)" =>
        /\ toImplementation("PASSIVE", PassiveOne) = toImplementation("ACTIVE", ActiveOne)
        /\ toImplementation("ACTIVE", ActiveOne) = arg
        /\ toStoredImplementation(PassiveOne) = Neg(toStoredImplementation(ActiveOne))

(* C3, the case: a Passive object constructed from three non-zero angles. *)
C3_Witness ==
    /\ op = "EulerAnglesZyx(Scalar,Scalar,Scalar)"
    /\ usage = "PASSIVE"
    /\ arg = <<1, 0 - 2, 3>>
    /\ zyx_ = <<0 - 1, 2, 0 - 3>>

(* C4: converting an EulerAnglesZyx to an EulerAnglesZyx of the same usage *)
(* (converting constructor, operator=, operator()) gives an object with    *)
(* the yaw(), pitch(), roll() and the stored payload of the source.        *)
C4_ConvertKeepsValue ==
    op \in {"EulerAnglesZyx(RotationBase)", "operator=", "operator()"} =>
        /\ Nominal(usage, zyx_) = Nominal(usage, arg)
        /\ toStoredImplementation(zyx_) = toStoredImplementation(arg)

C7_UniqueIgnoresUsage ==
    op = "getUnique" =>
        LET n == Nominal(usage, zyx_)
            o == OtherUsage(usage)
            t == getUnique(o, CtorScalars(o, n[1], n[2], n[3]))
        IN  /\ Nominal(o, t) = Nominal(usage, ret)
            /\ toStoredImplementation(t) = Neg(toStoredImplementation(ret))

(* C7, the case: getUnique() on a Passive object took a remapping branch.  *)
C7_Witness ==
    /\ op = "getUnique"
    /\ usage = "PASSIVE"
    /\ pitch(usage, ret) # WrapAngle(pitch(usage, zyx_))
    /\ pitch(usage, ret) # 0
    /\ yaw(usage, ret) # 0

(* C9: getUnique() leaves the receiver's payload and usage as they were;   *)
(* setUnique() leaves the receiver with the yaw, pitch and roll getUnique() *)
(* returns on the state before the call, and the usage as it was.          *)
C9_PureAndInPlace ==
    [][ /\ op' = "getUnique" => (zyx_' = zyx_ /\ usage' = usage)
        /\ op' = "setUnique" =>
               /\ Nominal(usage', zyx_') = Nominal(usage, getUnique(usage, zyx_))
               /\ usage' = usage ]_vars

(* C9, the case: setUnique() has left a Passive object with angles a       *)
(* remapping branch produces.                                              *)
C9_Witness ==
    /\ op = "setUnique"
    /\ usage = "PASSIVE"
    /\ Nominal(usage, zyx_) = <<0 - 1, 1, 3>>

(* C10: after setIdentity() the stored payload is (0, 0, 0), yaw(),        *)
(* pitch() and roll() are 0, and toImplementation() is the zero triple,    *)
(* as in the default-constructed object.                                   *)
C10_SetIdentityZero ==
    op = "setIdentity" =>
        /\ toStoredImplementation(zyx_) = Zero
        /\ Nominal(usage, zyx_) = Zero
        /\ toImplementation(usage, zyx_) = Zero
        /\ zyx_ = CtorDefault

(* The aliases agree with the named angles on the payload v. *)
AliasesAgree(u, v) ==
    /\ x(u, v) = roll(u, v)
    /\ y(u, v) = pitch(u, v)
    /\ z(u, v) = yaw(u, v)

(* C11: setYaw and setZ change only the yaw, setPitch and setY only the    *)
(* pitch, setRoll and setX only the roll: the angle written is the one     *)
(* passed, the other two angles and the usage are as before; and in every  *)
(* state x() = roll(), y() = pitch(), z() = yaw().                         *)
C11_OwnComponentOnly ==
    /\ AliasesAgree(usage, zyx_)
    /\ [][ /\ AliasesAgree(usage', zyx_')
           /\ IF op' = "setYaw" \/ op' = "setZ"
              THEN /\ usage' = usage
                   /\ yaw(usage', zyx_') = arg'[1]
                   /\ pitch(usage', zyx_') = pitch(usage, zyx_)
                   /\ roll(usage', zyx_') = roll(usage, zyx_)
              ELSE IF op' = "setPitch" \/ op' = "setY"
              THEN /\ usage' = usage
                   /\ pitch(usage', zyx_') = arg'[1]
                   /\ yaw(usage', zyx_') = yaw(usage, zyx_)
                   /\ roll(usage', zyx_') = roll(usage, zyx_)
              ELSE IF op' = "setRoll" \/ op' = "setX"
              THEN /\ usage' = usage
                   /\ roll(usage', zyx_') = arg'[1]
                   /\ yaw(usage', zyx_') = yaw(usage, zyx_)
                   /\ pitch(usage', zyx_') = pitch(usage, zyx_)
              ELSE TRUE ]_vars

(* C11, the case: setZ has written the yaw of a Passive object whose pitch *)
(* and roll are not zero.                                                  *)
C11_Witness ==
    /\ op = "setZ"
    /\ usage = "PASSIVE"
    /\ arg = <<3>>
    /\ Nominal(usage, zyx_) = <<3, 0 - 1, 2>>
    /\ z(usage, zyx_) = 3

(* The conditional shift of section 4.4: a - pi if a >= 0, else a + pi. *)
ShiftByPi(a) == IF a >= 0 THEN a - M_PI ELSE a + M_PI

(* The algorithm of section 4.4 on the nominal triple n: wrap each angle   *)
(* as mod(angle + pi, 2*pi) - pi; if the wrapped pitch is >= pi/2 return   *)
(* (yaw -/+ pi, pi - pitch, roll -/+ pi); else if it is < -pi/2 return     *)
(* (yaw -/+ pi, -pitch - pi, roll -/+ pi); else return the wrapped triple. *)
Section44(n) ==
    LET wy == ((n[1] + M_PI) % (2 * M_PI)) - M_PI
        wp == ((n[2] + M_PI) % (2 * M_PI)) - M_PI
        wr == ((n[3] + M_PI) % (2 * M_PI)) - M_PI
    IN  IF 2 * wp >= M_PI
        THEN <<ShiftByPi(wy), M_PI - wp, ShiftByPi(wr)>>
        ELSE IF 2 * wp < 0 - M_PI
        THEN <<ShiftByPi(wy), 0 - wp - M_PI, ShiftByPi(wr)>>
        ELSE <<wy, wp, wr>>

(* C12: the yaw(), pitch(), roll() of the value getUnique() returns are    *)
(* the result of the section 4.4 algorithm on the receiver's yaw(),        *)
(* pitch(), roll(), for both usages; and for (yaw = 0, pitch = pi,         *)
(* roll = 0) the value returned is (-pi, 0, -pi).                          *)
C12_UniqueIsSection44 ==
    op = "getUnique" =>
        /\ Nominal(usage, ret) = Section44(Nominal(usage, zyx_))
        /\ Nominal(usage, zyx_) = <<0, M_PI, 0>> =>
               Nominal(usage, ret) = <<0 - M_PI, 0, 0 - M_PI>>

(* C12, the case: getUnique() on an Active (yaw = 0, pitch = pi, roll = 0) *)
(* has returned (-pi, 0, -pi).                                             *)
C12_Witness ==
    /\ op = "getUnique"
    /\ usage = "ACTIVE"
    /\ Nominal(usage, zyx_) = <<0, M_PI, 0>>
    /\ Nominal(usage, ret) = <<0 - M_PI, 0, 0 - M_PI>>

(* The angles a and b differ by a whole multiple of 2*pi. *)
SameAngle(a, b) == (a - b) % (2 * M_PI) = 0

(* The triple g is the triple n up to whole multiples of 2*pi per angle. *)
SameUpToTurns(n, g) ==
    /\ SameAngle(g[1], n[1])
    /\ SameAngle(g[2], n[2])
    /\ SameAngle(g[3], n[3])

(* The triple g is the flip (yaw + pi, pi - pitch, roll + pi) of the       *)
(* triple n, up to whole multiples of 2*pi per angle.                      *)
FlipUpToTurns(n, g) ==
    /\ SameAngle(g[1], n[1] + M_PI)
    /\ SameAngle(g[2], M_PI - n[2])
    /\ SameAngle(g[3], n[3] + M_PI)

(* C13: the yaw(), pitch(), roll() of the value getUnique() returns encode *)
(* the rotation Rz(yaw)*Ry(pitch)*Rx(roll) the receiver's encode; they are *)
(* the receiver's up to whole multiples of 2*pi per angle or, when the     *)
(* wrapped pitch is outside [-pi/2, pi/2), their flip (yaw + pi,           *)
(* pi - pitch, roll + pi) up to whole multiples of 2*pi.                   *)
C13_UniqueKeepsRotation ==
    op = "getUnique" =>
        LET n == Nominal(usage, zyx_)
            g == Nominal(usage, ret)
            wp == WrapAngle(n[2])
        IN  /\ SameRotation(n, g)
            /\ IF 2 * wp >= M_PI \/ 2 * wp < 0 - M_PI
               THEN FlipUpToTurns(n, g)
               ELSE SameUpToTurns(n, g)

(* C13, the case: getUnique() on a Passive object with angles outside      *)
(* [-pi, pi) took a remapping branch.                                      *)
C13_Witness ==
    /\ op = "getUnique"
    /\ usage = "PASSIVE"
    /\ Nominal(usage, zyx_) = <<5, 3, 0 - 5>>
    /\ Nominal(usage, ret) = <<1, 1, 0 - 1>>

====
